---- MODULE Spec2Model ----
(***************************************************************************)
(* A model of src/src/fetchOperators.js: the operator-data extraction      *)
(* pipeline (listing crawl -> page parse -> dedup/sort -> persisted file). *)
(*                                                                         *)
(* JavaScript strings are sequences of one-character strings; the star     *)
(* glyph U+2605 is the one-element token StarGlyph.  JavaScript values     *)
(* that may be a string, a number, undefined or null are tagged records.   *)
(***************************************************************************)
EXTENDS Integers, Sequences, FiniteSets, TLC

VARIABLES
    pc,            \* position of main(): which await / statement comes next
    li,            \* index into rarityPages of the listing loop (line 202)
    operatorUrls,  \* the Set of line 200, in insertion order
    urls,          \* the sorted array of line 216
    pidx,          \* index into urls of the page loop (line 220)
    results,       \* value returned by parseOperatorPage for urls[1..pidx-1]
    operators,     \* the array of line 219
    final,         \* the array of line 234
    outFile,       \* components/operators.json: [written, records]
    writes,        \* number of completed fs.writeFileSync calls
    exitCode,      \* "running", or the exit status "0" or "1"
    waited,        \* timer delay elapsed since the last fetch was issued
    gap,           \* value of waited when the fetch in flight was issued
    fetches,       \* requests issued so far, in order
    errorsLogged,  \* number of console.error calls of lines 162 and 212
    call,          \* input of the pure-function specifications
    ret            \* their output

vars == <<pc, li, operatorUrls, urls, pidx, results, operators, final, outFile,
          writes, exitCode, waited, gap, fetches, errorsLogged, call, ret>>

mainVars == <<li, operatorUrls, urls, pidx, results, operators, final,
              outFile, writes, exitCode, waited, gap, fetches, errorsLogged>>

(***************************************************************************)
(* Characters and strings                                                  *)
(***************************************************************************)
StarGlyph == "U+2605"

Tab == "\t"

Newline == "\n"

Digits == {"0", "1", "2", "3", "4", "5", "6", "7", "8", "9"}

UpperCase == <<"A", "B", "C", "D", "E", "F", "G", "H", "I", "J", "K", "L", "M",
               "N", "O", "P", "Q", "R", "S", "T", "U", "V", "W", "X", "Y", "Z">>

LowerCase == <<"a", "b", "c", "d", "e", "f", "g", "h", "i", "j", "k", "l", "m",
               "n", "o", "p", "q", "r", "s", "t", "u", "v", "w", "x", "y", "z">>

\* printable ASCII from code 32 to code 126, in code order
Ascii == <<" ", "!", "QUOTE", "#", "$", "%", "&", "'", "(", ")", "*", "+", ",",
           "-", ".", "/", "0", "1", "2", "3", "4", "5", "6", "7", "8", "9",
           ":", ";", "<", "=", ">", "?", "@",
           "A", "B", "C", "D", "E", "F", "G", "H", "I", "J", "K", "L", "M",
           "N", "O", "P", "Q", "R", "S", "T", "U", "V", "W", "X", "Y", "Z",
           "[", "BACKSLASH", "]", "^", "_", "BACKTICK",
           "a", "b", "c", "d", "e", "f", "g", "h", "i", "j", "k", "l", "m",
           "n", "o", "p", "q", "r", "s", "t", "u", "v", "w", "x", "y", "z",
           "{", "|", "}", "~">>

IsDigit(c) == c \in Digits

\* the characters \s matches and trim() strips, among those of the model
IsSpace(c) == c \in {" ", Tab, Newline}

UpperSet == {UpperCase[i] : i \in 1..Len(UpperCase)}

LowerSet == {LowerCase[i] : i \in 1..Len(LowerCase)}

LowerOf == [c \in UpperSet |-> LowerCase[CHOOSE i \in 1..Len(UpperCase) : UpperCase[i] = c]]

AsciiCode == [c \in {Ascii[i] : i \in 1..Len(Ascii)} |->
                31 + (CHOOSE i \in 1..Len(Ascii) : Ascii[i] = c)]

IsUpper(c) == c \in UpperSet

\* /[A-Za-z\u00C0-\u024F]/ over the characters of the model (ASCII letters)
IsLetter(c) == c \in UpperSet \/ c \in LowerSet

ToLowerChar(c) == IF IsUpper(c) THEN LowerOf[c] ELSE c

toLowerCase(s) == [i \in 1..Len(s) |-> ToLowerChar(s[i])]

\* UTF-16 code unit of a character
CodeUnit(c) ==
    IF c = Tab THEN 9
    ELSE IF c = Newline THEN 10
    ELSE IF c = StarGlyph THEN 9733
    ELSE AsciiCode[c]

SetMin(S) == CHOOSE m \in S : \A k \in S : m <= k

SetMax(S) == CHOOSE m \in S : \A k \in S : k <= m

trim(s) ==
    LET solid == {i \in 1..Len(s) : ~IsSpace(s[i])}
    IN  IF solid = {} THEN <<>> ELSE SubSeq(s, SetMin(solid), SetMax(solid))

\* first index at which p occurs in s, 0 when it does not (indexOf + 1)
IndexOf(s, p) ==
    LET at == {i \in 1..(Len(s) - Len(p) + 1) : SubSeq(s, i, i + Len(p) - 1) = p}
    IN  IF at = {} THEN 0 ELSE SetMin(at)

includes(s, p) == IndexOf(s, p) # 0

startsWith(s, p) == Len(p) <= Len(s) /\ SubSeq(s, 1, Len(p)) = p

endsWith(s, p) == Len(p) <= Len(s) /\ SubSeq(s, Len(s) - Len(p) + 1, Len(s)) = p

\* s.replace(p, "") with a string pattern: the first occurrence is removed
RemoveFirst(s, p) ==
    LET i == IndexOf(s, p)
    IN  IF i = 0 THEN s ELSE SubSeq(s, 1, i - 1) \o SubSeq(s, i + Len(p), Len(s))

\* s.replace(/\s+/g, " ")
CollapseSpace(s) ==
    LET keep == SelectSeq([i \in 1..Len(s) |-> i],
                          LAMBDA i : ~(IsSpace(s[i]) /\ i > 1 /\ IsSpace(s[i - 1])))
    IN  [k \in 1..Len(keep) |-> IF IsSpace(s[keep[k]]) THEN " " ELSE s[keep[k]]]

(***************************************************************************)
(* JavaScript values                                                       *)
(***************************************************************************)
Str(s) == [t |-> "string", s |-> s, n |-> 0, finite |-> TRUE]

Num(n) == [t |-> "number", s |-> <<>>, n |-> n, finite |-> TRUE]

Infinity == [t |-> "number", s |-> <<>>, n |-> 0, finite |-> FALSE]

Undefined == [t |-> "undefined", s |-> <<>>, n |-> 0, finite |-> TRUE]

Null == [t |-> "null", s |-> <<>>, n |-> 0, finite |-> TRUE]

Truthy(v) ==
    CASE v.t = "string" -> v.s # <<>>
      [] v.t = "number" -> ~v.finite \/ v.n # 0
      [] v.t = "object" -> TRUE
      [] OTHER -> FALSE

\* a || b
Or(a, b) == IF Truthy(a) THEN a ELSE b

(***************************************************************************)
(* The parsed document (cheerio).  An element is [cls, text, kids, attr]:   *)
(* the selector it answers to, its own text, its child elements in order   *)
(* and the attribute the code reads from it (content or src; Undefined     *)
(* when the attribute is absent).                                          *)
(***************************************************************************)
RECURSIVE Concat(_)
Concat(ss) == IF ss = <<>> THEN <<>> ELSE Head(ss) \o Concat(Tail(ss))

\* .text() of one element: its text and that of its descendants
RECURSIVE NodeText(_)
NodeText(n) == n.text \o Concat([i \in 1..Len(n.kids) |-> NodeText(n.kids[i])])

\* the elements below a sibling list, in document order, each with its siblings
RECURSIVE Walk(_)
Walk(nodes) ==
    Concat([i \in 1..Len(nodes) |->
              <<[node |-> nodes[i], sibs |-> nodes, pos |-> i]>> \o Walk(nodes[i].kids)])

\* $(selector) for a class or tag selector
Select(doc, cls) == SelectSeq(Walk(doc), LAMBDA e : e.node.cls = cls)

\* $(el).find(selector)
Find(e, cls) == SelectSeq(Walk(e.node.kids), LAMBDA d : d.node.cls = cls)

\* .text() of a selection: the texts of its elements, concatenated
Text(sel) == Concat([i \in 1..Len(sel) |-> NodeText(sel[i].node)])

\* .attr(name) of a selection: the attribute of its first element
Attr(sel) == IF sel = <<>> THEN Undefined ELSE sel[1].node.attr

\* .first()
First(sel) == IF sel = <<>> THEN <<>> ELSE <<sel[1]>>

\* .next(selector) of a selection of at most one element; "*" is .next()
NextSibling(sel, cls) ==
    IF sel = <<>> \/ sel[1].pos = Len(sel[1].sibs) THEN <<>>
    ELSE LET e == sel[1]
             nx == [node |-> e.sibs[e.pos + 1], sibs |-> e.sibs, pos |-> e.pos + 1]
         IN  IF cls = "*" \/ nx.node.cls = cls THEN <<nx>> ELSE <<>>

textMatches(a, b) ==
    IF a = <<>> THEN FALSE
    ELSE includes(toLowerCase(trim(a)), toLowerCase(b))

\* 1) the first .pi-data whose .pi-data-label text equals the label
Strategy1(doc, label) ==
    LET pi == First(SelectSeq(Select(doc, "pi-data"),
                     LAMBDA el : LET lbl == Text(Find(el, "pi-data-label"))
                                 IN  lbl # <<>> /\ toLowerCase(trim(lbl)) = toLowerCase(label)))
    IN  IF pi # <<>> THEN trim(Text(Find(pi[1], "pi-data-value"))) ELSE <<>>

\* 2) the first .pi-data-label equal to the label, then its next .pi-data-value
Strategy2(doc, label) ==
    LET pi2 == First(SelectSeq(Select(doc, "pi-data-label"),
                      LAMBDA el : toLowerCase(trim(NodeText(el.node))) = toLowerCase(label)))
    IN  IF pi2 # <<>> THEN trim(Text(NextSibling(pi2, "pi-data-value"))) ELSE <<>>

\* 3) the first th containing the label, then its next td
Strategy3(doc, label) ==
    LET th == First(SelectSeq(Select(doc, "th"),
                     LAMBDA el : textMatches(NodeText(el.node), label)))
        td == NextSibling(th, "td")
    IN  IF th # <<>> /\ td # <<>> THEN trim(Text(td)) ELSE <<>>

\* 4) the first childless element whose text is the label, then its next sibling
Strategy4(doc, label) ==
    LET candidate == First(SelectSeq(Walk(doc),
                            LAMBDA el : /\ includes(NodeText(el.node), label)
                                        /\ el.node.kids = <<>>
                                        /\ toLowerCase(trim(NodeText(el.node)))
                                             = toLowerCase(label)))
        sib == NextSibling(candidate, "*")
    IN  IF candidate # <<>> /\ sib # <<>> THEN trim(Text(sib)) ELSE <<>>

\* a cascade in which a later strategy overrides an earlier one
extractFieldLastWins(doc, label) ==
    LET val1 == Strategy1(doc, label)
        val2 == Strategy2(doc, label)
        val3 == Strategy3(doc, label)
        val4 == Strategy4(doc, label)
    IN  IF val4 # <<>> THEN val4
        ELSE IF val3 # <<>> THEN val3
        ELSE IF val2 # <<>> THEN val2
        ELSE val1

\* lines 47-90: the value of the first strategy that finds a non-empty one
extractField(doc, label) ==
    LET val1 == Strategy1(doc, label)
        val2 == Strategy2(doc, label)
        val3 == Strategy3(doc, label)
        val4 == Strategy4(doc, label)
    IN  IF val1 # <<>> THEN val1
        ELSE IF val2 # <<>> THEN val2
        ELSE IF val3 # <<>> THEN val3
        ELSE IF val4 # <<>> THEN val4
        ELSE <<>>

\* extractField(a) || extractField(b) || ... over a list of labels
RECURSIVE FirstField(_, _)
FirstField(doc, labels) ==
    IF labels = <<>> THEN <<>>
    ELSE LET val == extractField(doc, Head(labels))
         IN  IF val # <<>> THEN val ELSE FirstField(doc, Tail(labels))

(***************************************************************************)
(* parseOperatorPage                                                       *)
(***************************************************************************)
SiteRoot == <<"h", "t", "t", "p", "s", ":", "/", "/", "a", "r", "k", "n", "i", "g", "h", "t", "s", ".", "w", "i", "k", "i", ".", "g", "g">>

\* a pattern that never matches
MatchNothing(s) == Null

\* first match of /\d{4}-\d{2}-\d{2}/, Null when there is none
MatchIso(s) ==
    LET at == {i \in 1..(Len(s) - 9) :
                 /\ \A k \in {0, 1, 2, 3, 5, 6, 8, 9} : IsDigit(s[i + k])
                 /\ s[i + 4] = "-" /\ s[i + 7] = "-"}
    IN  IF at = {} THEN Null ELSE Str(SubSeq(s, SetMin(at), SetMin(at) + 9))

\* first match of /\d{4}/, Null when there is none
MatchYear(s) ==
    LET at == {i \in 1..(Len(s) - 3) : \A k \in 0..3 : IsDigit(s[i + k])}
    IN  IF at = {} THEN Null ELSE Str(SubSeq(s, SetMin(at), SetMin(at) + 3))

\* first match of /\d+/, Null when there is none
MatchDigits(s) ==
    LET at == {i \in 1..Len(s) : IsDigit(s[i])}
        i0 == SetMin(at)
        stop == {j \in i0..Len(s) : j = Len(s) \/ ~IsDigit(s[j + 1])}
    IN  IF at = {} THEN Null ELSE Str(SubSeq(s, i0, SetMin(stop)))

\* (s.match(/U+2605/g) || []).length
StarCount(s) == Cardinality({i \in 1..Len(s) : s[i] = StarGlyph})

DigitValue(c) == CodeUnit(c) - 48

RECURSIVE Decimal(_)
Decimal(d) ==
    IF d = <<>> THEN 0 ELSE 10 * Decimal(SubSeq(d, 1, Len(d) - 1)) + DigitValue(d[Len(d)])

\* Number(d) for a string of decimal digits: a numeral of more than 309
\* significant digits is beyond the largest double and converts to Infinity
ToNumber(d) ==
    LET nz == {i \in 1..Len(d) : d[i] # "0"}
        sig == IF nz = {} THEN <<>> ELSE SubSeq(d, SetMin(nz), Len(d))
    IN  IF Len(sig) > 309 THEN Infinity ELSE Num(Decimal(sig))

\* line 117
ParseRarity(rarityRaw) ==
    LET digits == MatchDigits(rarityRaw)
    IN  Or(Num(StarCount(rarityRaw)),
           IF digits # Null THEN ToNumber(digits.s) ELSE Str(<<>>))

\* release parsing that keeps the raw text as the event name
ReleaseInfoKeepsText(releaseRaw) ==
    IF releaseRaw = <<>> THEN [date_global |-> <<>>, event_name |-> <<>>]
    ELSE LET iso == MatchIso(releaseRaw)
             y == MatchYear(releaseRaw)
         IN  [date_global |-> IF iso # Null THEN iso.s
                              ELSE IF y # Null THEN y.s
                              ELSE <<>>,
              event_name |-> releaseRaw]

\* lines 128-143: date_global and event_name before tidy
ReleaseInfo(releaseRaw) ==
    IF releaseRaw = <<>> THEN [date_global |-> <<>>, event_name |-> <<>>]
    ELSE LET iso == MatchIso(releaseRaw)
             y == MatchYear(releaseRaw)
             date_global == IF iso # Null THEN iso.s
                            ELSE IF y # Null THEN y.s
                            ELSE <<>>
             stripped == trim(RemoveFirst(releaseRaw, date_global))
         IN  [date_global |-> date_global,
              event_name |-> IF stripped = <<>> THEN releaseRaw ELSE stripped]

\* line 146
tidy(v) == IF Truthy(v) THEN Str(trim(CollapseSpace(v.s))) ELSE Str(<<>>)

\* lines 109-110 and 112-113
AbsoluteUrl(v) ==
    LET a == IF Truthy(v) /\ startsWith(v.s, <<"/", "/">>) THEN Str(<<"h", "t", "t", "p", "s", ":">> \o v.s) ELSE v
    IN  IF Truthy(a) /\ startsWith(a.s, <<"/">>) THEN Str(SiteRoot \o a.s) ELSE a

\* line 127
ReleaseRaw(doc) ==
    FirstField(doc, <<<<"R", "e", "l", "e", "a", "s", "e", "d">>, <<"R", "e", "l", "e", "a", "s", "e">>, <<"R", "e", "l", "e", "a", "s", "e", " ", "D", "a", "t", "e">>, <<"R", "e", "c", "r", "u", "i", "t", "m", "e", "n", "t">>>>)

\* lines 104-106
Portrait(doc) ==
    LET piImage == First(Select(doc, "pi-image-img"))
    IN  IF piImage # <<>> THEN Attr(piImage) ELSE Str(<<>>)

\* the object of lines 148-160
OperatorRecord(opUrl, doc) ==
    LET name == Or(Str(trim(Text(Select(doc, "firstHeading")))),
                   Str(trim(Text(Select(doc, "pi-title")))))
        fullImage == Or(Attr(Select(doc, "meta-og-image")), Str(<<>>))
        rarity == ParseRarity(FirstField(doc, <<<<"R", "a", "r", "i", "t", "y">>, <<"R", "a", "r", "i", "t", "y", "/", "S", "t", "a", "r", "s">>, <<"S", "t", "a", "r">>>>))
        release == ReleaseInfo(ReleaseRaw(doc))
    IN  [t |-> "object",
         name |-> tidy(name),
         gender |-> tidy(Str(FirstField(doc, <<<<"G", "e", "n", "d", "e", "r">>, <<"S", "e", "x">>>>))),
         rarity |-> Or(rarity, Str(<<>>)),
         class |-> tidy(Str(FirstField(doc, <<<<"C", "l", "a", "s", "s">>, <<"R", "o", "l", "e">>>>))),
         archetype |-> tidy(Str(FirstField(doc, <<<<"A", "r", "c", "h", "e", "t", "y", "p", "e">>, <<"T", "y", "p", "e">>>>))),
         faction |-> tidy(Str(FirstField(doc, <<<<"F", "a", "c", "t", "i", "o", "n">>, <<"A", "f", "f", "i", "l", "i", "a", "t", "i", "o", "n">>>>))),
         race |-> tidy(Str(FirstField(doc, <<<<"R", "a", "c", "e">>>>))),
         region |-> tidy(Str(FirstField(doc, <<<<"R", "e", "g", "i", "o", "n">>, <<"O", "r", "i", "g", "i", "n">>>>))),
         release |-> [date_global |-> tidy(Str(release.date_global)),
                      event_name |-> tidy(Str(release.event_name))],
         image |-> [portrait |-> tidy(AbsoluteUrl(Portrait(doc))),
                    full |-> tidy(AbsoluteUrl(fullImage))],
         source |-> Str(opUrl)]

\* without the try/catch of lines 93 and 161 the rejection would propagate
parseOperatorPageRethrows(opUrl, resp) ==
    IF resp.ok THEN OperatorRecord(opUrl, resp.data)
    ELSE [t |-> "thrown", s |-> <<>>, n |-> 0, finite |-> TRUE]

\* resp is the outcome of fetchHtml: [ok, data]; a rejected fetch is caught
\* at line 161 and null is returned
parseOperatorPage(opUrl, resp) ==
    IF resp.ok THEN OperatorRecord(opUrl, resp.data) ELSE Null

(***************************************************************************)
(* fetchOperatorLinksFromListing.  A listing document is the sequence of   *)
(* its anchors, each [inContent, href, text]: whether it lies below        *)
(* #mw-content-text, its href attribute (Undefined when absent), its text. *)
(***************************************************************************)
\* new URL(h, "https://arknights.wiki.gg").href: tab and newline are removed,
\* a space is percent-encoded, and the reference is resolved against the base
ResolveUrl(h) ==
    LET kept == SelectSeq(h, LAMBDA c : c # Tab /\ c # Newline)
        enc == Concat([i \in 1..Len(kept) |->
                         IF kept[i] = " " THEN <<"%", "2", "0">> ELSE <<kept[i]>>])
    IN  IF includes(enc, <<":", "/", "/">>) /\ IsLetter(enc[1]) THEN enc
        ELSE IF startsWith(enc, <<"/", "/">>) THEN <<"h", "t", "t", "p", "s", ":">> \o enc
        ELSE IF startsWith(enc, <<"/">>) THEN SiteRoot \o enc
        ELSE SiteRoot \o <<"/">> \o enc

\* push(u) on an array: a value already present is stored again
ArrayPush(links, u) == Append(links, u)

\* links.add(u) on a Set kept in insertion order
SetAdd(links, u) ==
    IF \E i \in 1..Len(links) : links[i] = u THEN links ELSE Append(links, u)

\* lines 176-178: the anchor is selected and its href accepted
AcceptedByPattern(a) ==
    /\ a.inContent
    /\ a.href.t = "string" /\ startsWith(a.href.s, <<"/", "w", "i", "k", "i", "/", "O", "p", "e", "r", "a", "t", "o", "r">>)
    /\ Truthy(a.href) /\ ~includes(a.href.s, <<":">>)

\* lines 182-193
AcceptedByFallback(a) ==
    /\ a.inContent
    /\ a.href.t = "string" /\ startsWith(a.href.s, <<"/", "w", "i", "k", "i", "/">>)
    /\ Truthy(a.href)
    /\ ~includes(a.href.s, <<":">>)
    /\ ~(endsWith(a.href.s, <<"O", "p", "e", "r", "a", "t", "o", "r">>) \/ endsWith(a.href.s, <<"O", "p", "e", "r", "a", "t", "o", "r", "s">>))
    /\ LET txt == trim(a.text)
       IN  txt # <<>> /\ Len(txt) < 40 /\ \E i \in 1..Len(txt) : IsLetter(txt[i])

\* concat(items) on an array: every element is stored, present or not
ArrayConcat(links, items) == links \o items

\* every element of items is added to the Set, in order
RECURSIVE AddAll(_, _)
AddAll(links, items) ==
    IF items = <<>> THEN links ELSE AddAll(SetAdd(links, Head(items)), Tail(items))

\* the resolved URLs of the anchors a loop accepts, in document order
Resolved(anchors) == [i \in 1..Len(anchors) |-> ResolveUrl(anchors[i].href.s)]

\* Array.from(links) after both .each() loops
fetchOperatorLinksFromListing(doc) ==
    AddAll(AddAll(<<>>, Resolved(SelectSeq(doc, AcceptedByPattern))),
           Resolved(SelectSeq(doc, AcceptedByFallback)))

(***************************************************************************)
(* main                                                                    *)
(***************************************************************************)
rarityPages == <<<<"O", "p", "e", "r", "a", "t", "o", "r", "/", "1", "-", "s", "t", "a", "r">>, <<"O", "p", "e", "r", "a", "t", "o", "r", "/", "2", "-", "s", "t", "a", "r">>, <<"O", "p", "e", "r", "a", "t", "o", "r", "/", "3", "-", "s", "t", "a", "r">>,
                 <<"O", "p", "e", "r", "a", "t", "o", "r", "/", "4", "-", "s", "t", "a", "r">>, <<"O", "p", "e", "r", "a", "t", "o", "r", "/", "5", "-", "s", "t", "a", "r">>, <<"O", "p", "e", "r", "a", "t", "o", "r", "/", "6", "-", "s", "t", "a", "r">>>>

BASE == <<"h", "t", "t", "p", "s", ":", "/", "/", "a", "r", "k", "n", "i", "g", "h", "t", "s", ".", "w", "i", "k", "i", ".", "g", "g", "/", "w", "i", "k", "i", "/">>

ListingDelayMs == 600

PageDelayMs == 500

\* the first index at which a and b differ under the weight W, 0 when one
\* is a prefix of the other
FirstDifference(a, b, W(_)) ==
    LET n == IF Len(a) < Len(b) THEN Len(a) ELSE Len(b)
        diff == {i \in 1..n : W(a[i]) # W(b[i])}
    IN  IF diff = {} THEN 0 ELSE SetMin(diff)

\* a < b for strings compared by UTF-16 code units (the default of sort())
CodeUnitLess(a, b) ==
    LET d == FirstDifference(a, b, CodeUnit)
    IN  IF d = 0 THEN Len(a) < Len(b) ELSE CodeUnit(a[d]) < CodeUnit(b[d])

\* collation weight of a character at the first level, where case is ignored
PrimaryWeight(c) == CodeUnit(ToLowerChar(c))

\* a.localeCompare(b): -1, 0 or 1.  Strings differing in letters or length
\* are ordered by their first-level weights; strings equal at that level are
\* ordered at the first case difference, lower case first.
localeCompare(a, b) ==
    LET p == FirstDifference(a, b, PrimaryWeight)
        c == FirstDifference(a, b, CodeUnit)
    IN  IF p # 0 THEN (IF PrimaryWeight(a[p]) < PrimaryWeight(b[p]) THEN -1 ELSE 1)
        ELSE IF Len(a) # Len(b) THEN (IF Len(a) < Len(b) THEN -1 ELSE 1)
        ELSE IF c = 0 THEN 0
        ELSE IF IsUpper(b[c]) THEN -1 ELSE 1

\* Array.prototype.sort with a consistent comparator: the stable sort, in
\* which s[i] comes after the elements below it and the equal ones before it
Sort(s, Less(_, _)) ==
    LET rank(i) == 1 + Cardinality({j \in 1..Len(s) :
                         Less(s[j], s[i]) \/ (~Less(s[i], s[j]) /\ j < i)})
    IN  [k \in 1..Len(s) |-> s[CHOOSE i \in 1..Len(s) : rank(i) = k]]

\* line 216: Array.from(operatorUrls).sort()
SortUrls(set) == Sort(set, CodeUnitLess)

\* byName.set(o.name, o) without the has() test: the last record wins
RECURSIVE DedupLastWins(_, _)
DedupLastWins(byName, ops) ==
    IF ops = <<>> THEN byName
    ELSE LET o == Head(ops)
         IN  DedupLastWins(
                 IF ~Truthy(o) \/ ~Truthy(o.name) THEN byName
                 ELSE IF ~\E i \in 1..Len(byName) : byName[i].name = o.name
                      THEN Append(byName, o)
                      ELSE [i \in 1..Len(byName) |->
                              IF byName[i].name = o.name THEN o ELSE byName[i]],
                 Tail(ops))

\* lines 229-233: the values of byName, in insertion order
RECURSIVE DedupByName(_, _)
DedupByName(byName, ops) ==
    IF ops = <<>> THEN byName
    ELSE LET o == Head(ops)
         IN  DedupByName(
                 IF ~Truthy(o) \/ ~Truthy(o.name) THEN byName
                 ELSE IF ~\E i \in 1..Len(byName) : byName[i].name = o.name
                      THEN Append(byName, o)
                      ELSE byName,
                 Tail(ops))

\* sorting with a.name < b.name, by code units
SortByNameCodeUnits(values) ==
    Sort(values, LAMBDA a, b : CodeUnitLess(a.name.s, b.name.s))

\* line 234
SortByName(values) ==
    Sort(values, LAMBDA a, b : localeCompare(a.name.s, b.name.s) < 0)

\* JSON.stringify of one property value: a string or a finite number is
\* kept, a number that is not finite is written as null, an undefined
\* property is left out of the object
JsonValue(v) ==
    IF v.t = "number" /\ ~v.finite THEN Null ELSE v

\* what JSON.stringify(final, null, 2) writes and a reader parses back
Stringify(records) ==
    [i \in 1..Len(records) |->
       LET o == records[i]
       IN  [t |-> "object",
            name |-> JsonValue(o.name),
            gender |-> JsonValue(o.gender),
            rarity |-> JsonValue(o.rarity),
            class |-> JsonValue(o.class),
            archetype |-> JsonValue(o.archetype),
            faction |-> JsonValue(o.faction),
            race |-> JsonValue(o.race),
            region |-> JsonValue(o.region),
            release |-> [date_global |-> JsonValue(o.release.date_global),
                         event_name |-> JsonValue(o.release.event_name)],
            image |-> [portrait |-> JsonValue(o.image.portrait),
                       full |-> JsonValue(o.image.full)],
            source |-> JsonValue(o.source)]]

(***************************************************************************)
(* Bounded inputs of the run: what the wiki may answer                     *)
(***************************************************************************)
SeqsUpTo(S, n) == UNION {[1..k -> S] : k \in 0..n}

Leaf(cls, text) == [cls |-> cls, text |-> text, kids |-> <<>>, attr |-> Undefined]

Box(cls, kids) == [cls |-> cls, text |-> <<>>, kids |-> kids, attr |-> Undefined]

WithAttr(cls, attr) == [cls |-> cls, text |-> <<>>, kids |-> <<>>, attr |-> attr]

Anchor(inContent, href, text) == [inContent |-> inContent, href |-> href, text |-> text]

\* most anchors of one listing page
MaxAnchors == 2

\* the sorted order of the three pages differs from their order here; one
\* of them is the second listing page, linked from a listing
MainAnchors ==
    {Anchor(TRUE, Str(<<"/", "w", "i", "k", "i", "/", "b">>), <<"b">>),
     Anchor(TRUE, Str(<<"/", "w", "i", "k", "i", "/", "B">>), <<"B">>),
     Anchor(TRUE, Str(<<"/", "w", "i", "k", "i", "/", "O", "p", "e", "r", "a", "t", "o", "r", "/", "2", "-", "s", "t", "a", "r">>), <<"2", "-", "s", "t", "a", "r">>),
     Anchor(TRUE, Str(<<"/", "w", "i", "k", "i", "/", "F", "i", "l", "e", ":", "a">>), <<"a">>)}

ListingDocs == SeqsUpTo(MainAnchors, MaxAnchors)

\* operator pages: one served under several URLs gives two records of one
\* name; a name differing in case only, a page without a name, another name
MainPages ==
    {<<Leaf("firstHeading", <<"A", "m", "i", "y", "a">>),
       Box("pi-data", <<Leaf("pi-data-label", <<"R", "a", "r", "i", "t", "y">>),
                        Leaf("pi-data-value", <<StarGlyph, StarGlyph, StarGlyph, StarGlyph, StarGlyph>>)>>)>>,
     <<Leaf("firstHeading", <<"a", "m", "i", "y", "a", "\n">>)>>,
     <<Box("tr", <<Leaf("th", <<"C", "l", "a", "s", "s">>), Leaf("td", <<"G", "u", "a", "r", "d">>)>>)>>,
     <<Leaf("firstHeading", <<"B", "i", "s", "o", "n">>)>>}

PageResponses ==
    {[ok |-> FALSE, data |-> <<>>]} \cup {[ok |-> TRUE, data |-> d] : d \in MainPages}

(***************************************************************************)
(* main(), one action per continuation                                     *)
(***************************************************************************)
Idle == <<>>

\* components/operators.json before the run writes it
NoFile == [written |-> FALSE, records |-> <<>>]

Init ==
    /\ pc = "listing"
    /\ li = 1
    /\ operatorUrls = <<>>
    /\ urls = <<>>
    /\ pidx = 1
    /\ results = <<>>
    /\ operators = <<>>
    /\ final = <<>>
    /\ outFile = NoFile
    /\ writes = 0
    /\ exitCode = "running"
    /\ waited = 0
    /\ gap = 0
    /\ fetches = <<>>
    /\ errorsLogged = 0
    /\ call = Idle
    /\ ret = Idle

\* the request a fetch continuation is waiting for
Request(kind, url) == [kind |-> kind, url |-> url]

\* lines 203-206: the next listing page is requested
IssueListingFetch ==
    /\ pc = "listing" /\ li <= Len(rarityPages)
    /\ fetches' = Append(fetches, Request("listing", BASE \o rarityPages[li]))
    /\ gap' = waited
    /\ waited' = 0
    /\ pc' = "awaitListing"
    /\ UNCHANGED <<li, operatorUrls, urls, pidx, results, operators, final,
                   outFile, writes, exitCode, errorsLogged, call, ret>>

\* the delay of line 210 is started by a listing that answered
AfterListingOk == "listingDelay"

\* lines 206-210: the listing answered; its links join the set
ListingOk ==
    /\ pc = "awaitListing"
    /\ \E doc \in ListingDocs :
         operatorUrls' = AddAll(operatorUrls, fetchOperatorLinksFromListing(doc))
    /\ pc' = AfterListingOk
    /\ UNCHANGED <<li, urls, pidx, results, operators, final, outFile, writes,
                   exitCode, waited, gap, fetches, errorsLogged, call, ret>>

\* a catch placed around the whole loop would leave it at the first failure
ListingFailureEndsDiscovery == "page"

\* where the catch of lines 211-213 leaves the loop: at the next iteration
AfterListingFailed == "listing"

\* lines 211-213: the listing fetch failed; logged, the loop goes on
ListingFailed ==
    /\ pc = "awaitListing"
    /\ pc' = AfterListingFailed
    /\ li' = IF AfterListingFailed = "listing" THEN li + 1 ELSE li
    /\ errorsLogged' = errorsLogged + 1
    /\ UNCHANGED <<operatorUrls, urls, pidx, results, operators, final, outFile,
                   writes, exitCode, waited, gap, fetches, call, ret>>

\* line 210: the timer fires
ListingDelay ==
    /\ pc = "listingDelay"
    /\ waited' = waited + ListingDelayMs
    /\ li' = li + 1
    /\ pc' = "listing"
    /\ UNCHANGED <<operatorUrls, urls, pidx, results, operators, final, outFile,
                   writes, exitCode, gap, fetches, errorsLogged, call, ret>>

\* lines 216-219: the listing loop is over
StartParsing ==
    /\ pc = "listing" /\ li > Len(rarityPages)
    /\ urls' = SortUrls(operatorUrls)
    /\ pidx' = 1
    /\ operators' = <<>>
    /\ pc' = "page"
    /\ UNCHANGED <<li, operatorUrls, results, final, outFile, writes, exitCode,
                   waited, gap, fetches, errorsLogged, call, ret>>

\* lines 220-222 and 94: the next operator page is requested
IssuePageFetch ==
    /\ pc = "page" /\ pidx <= Len(urls)
    /\ fetches' = Append(fetches, Request("page", urls[pidx]))
    /\ gap' = waited
    /\ waited' = 0
    /\ pc' = "awaitPage"
    /\ UNCHANGED <<li, operatorUrls, urls, pidx, results, operators, final,
                   outFile, writes, exitCode, errorsLogged, call, ret>>

Thrown == [t |-> "thrown", s |-> <<>>, n |-> 0, finite |-> TRUE]

\* line 223
PushIfParsed(ops, op) == IF Truthy(op) THEN Append(ops, op) ELSE ops

\* lines 222-225: parseOperatorPage settles.  A value it threw would reject
\* main() and reach the handler of lines 241-244.
PageSettled ==
    /\ pc = "awaitPage"
    /\ \E resp \in PageResponses :
         LET op == parseOperatorPage(urls[pidx], resp)
         IN  /\ errorsLogged' = IF resp.ok THEN errorsLogged ELSE errorsLogged + 1
             /\ IF op.t = "thrown"
                THEN /\ pc' = "failed"
                     /\ exitCode' = "1"
                     /\ UNCHANGED <<results, operators>>
                ELSE /\ pc' = "pageDelay"
                     /\ results' = Append(results, op)
                     /\ operators' = PushIfParsed(operators, op)
                     /\ UNCHANGED exitCode
    /\ UNCHANGED <<li, operatorUrls, urls, pidx, final, outFile, writes, waited,
                   gap, fetches, call, ret>>

\* line 225: the timer fires
PageDelay ==
    /\ pc = "pageDelay"
    /\ waited' = waited + PageDelayMs
    /\ pidx' = pidx + 1
    /\ pc' = "page"
    /\ UNCHANGED <<li, operatorUrls, urls, results, operators, final, outFile,
                   writes, exitCode, gap, fetches, errorsLogged, call, ret>>

\* lines 229-234: dedupe by name, then sort
Reduce ==
    /\ pc = "page" /\ pidx > Len(urls)
    /\ \E byName \in {DedupByName(<<>>, operators)} :
         final' = SortByName(byName)
    /\ pc' = "persist"
    /\ UNCHANGED <<li, operatorUrls, urls, pidx, results, operators, outFile,
                   writes, exitCode, waited, gap, fetches, errorsLogged, call, ret>>

\* lines 236-238: the file is written and main() resolves
WriteOk ==
    /\ pc = "persist"
    /\ outFile' = [written |-> TRUE, records |-> Stringify(final)]
    /\ writes' = writes + 1
    /\ exitCode' = "0"
    /\ pc' = "done"
    /\ UNCHANGED <<li, operatorUrls, urls, pidx, results, operators, final,
                   waited, gap, fetches, errorsLogged, call, ret>>

\* lines 237 and 241-244: writeFileSync throws, main() rejects, exit(1)
WriteFailed ==
    /\ pc = "persist"
    /\ exitCode' = "1"
    /\ pc' = "failed"
    /\ UNCHANGED <<li, operatorUrls, urls, pidx, results, operators, final,
                   outFile, writes, waited, gap, fetches, errorsLogged, call, ret>>

Next ==
    \/ IssueListingFetch
    \/ ListingOk
    \/ ListingFailed
    \/ ListingDelay
    \/ StartParsing
    \/ IssuePageFetch
    \/ PageSettled
    \/ PageDelay
    \/ Reduce
    \/ WriteOk
    \/ WriteFailed

Spec == Init /\ [][Next]_vars

\* every request is answered and every timer fires
FairSpec == Spec /\ WF_vars(Next)

(***************************************************************************)
(* Properties of the run                                                   *)
(***************************************************************************)
Persisted == pc = "done"

IsRecord(v) == v.t = "object"

\* the records of the persisted collection, in order
Saved == outFile.records

\* the persisted form of a parsed record
AsSaved(r) == Stringify(<<r>>)[1]

Named(v) == IsRecord(v) /\ v.name.s # <<>>

\* C1: the persisted collection holds at most one record per name, and the
\* record kept for a name is a parsed record whose source URL is not after
\* the source URL of any other parsed record of that name in sorted order.
C1_DedupFirstWins ==
    Persisted =>
      /\ \A i, j \in 1..Len(Saved) :
           i # j => Saved[i].name # Saved[j].name
      /\ \A i \in 1..Len(Saved) :
           /\ \E k \in 1..Len(results) :
                IsRecord(results[k]) /\ AsSaved(results[k]) = Saved[i]
           /\ \A k \in 1..Len(results) :
                (IsRecord(results[k]) /\ results[k].name = Saved[i].name)
                  => ~CodeUnitLess(results[k].source.s, Saved[i].source.s)

\* a run in which one name was parsed from two URLs that were discovered in
\* the opposite of their sorted order
C1_Witness ==
    /\ Persisted
    /\ \E j, k \in 1..Len(results) :
         /\ j < k /\ Named(results[j]) /\ IsRecord(results[k])
         /\ results[j].name = results[k].name
         /\ \E a, b \in 1..Len(operatorUrls) :
              a < b /\ operatorUrls[a] = urls[k] /\ operatorUrls[b] = urls[j]

\* C2: the names of the persisted collection are non-decreasing under the
\* comparison used for sorting.
C2_SortedByName ==
    Persisted =>
      \A i \in 1..(Len(Saved) - 1) :
        localeCompare(Saved[i].name.s, Saved[i + 1].name.s) <= 0

\* a persisted collection of three names that the sort had to reorder and
\* whose order differs from the code-unit order
C2_Witness ==
    /\ Persisted
    /\ Len(Saved) = 3
    /\ Saved # Stringify(DedupByName(<<>>, operators))
    /\ \E i \in 1..2 : CodeUnitLess(Saved[i + 1].name.s, Saved[i].name.s)

\* C3: a failing page does not abort the batch: parseOperatorPage settles
\* with null or a record, the run fails only after every page was handled,
\* and the persisted output holds every parsed record with a non-empty name
\* that no earlier URL produced.
C3_FailureDoesNotAbort ==
    /\ \A k \in 1..Len(results) : results[k] = Null \/ IsRecord(results[k])
    /\ exitCode = "1" => Len(results) = Len(urls) /\ pc = "failed"
    /\ Persisted =>
         /\ Len(results) = Len(urls)
         /\ \A k \in 1..Len(results) :
              (/\ Named(results[k])
               /\ \A j \in 1..(k - 1) :
                    IsRecord(results[j]) => results[j].name # results[k].name)
                => \E i \in 1..Len(Saved) : Saved[i] = AsSaved(results[k])

\* one failing URL among three leaves the two succeeding records
C3_Witness ==
    /\ Persisted
    /\ Len(urls) = 3
    /\ Cardinality({k \in 1..3 : results[k] = Null}) = 1
    /\ Len(Saved) = 2
    /\ \A i \in 1..2 : \E k \in 1..3 :
         IsRecord(results[k]) /\ AsSaved(results[k]) = Saved[i]

\* C8: between two consecutive listing fetches the listing delay elapses,
\* whether the earlier fetch succeeded or failed, and between two
\* consecutive page fetches the page delay elapses.
C8_DelayBetweenFetches ==
    /\ (pc = "awaitListing" /\ li > 1) => gap >= ListingDelayMs
    /\ (pc = "awaitPage" /\ pidx > 1) => gap >= PageDelayMs

\* the stage of the run: discover, parse, reduce (the collection is built and
\* about to be written), persist (the run has ended)
StageRank ==
    CASE pc \in {"listing", "awaitListing", "listingDelay"} -> 1
      [] pc \in {"page", "awaitPage", "pageDelay"} -> 2
      [] pc = "persist" -> 3
      [] pc \in {"done", "failed"} -> 4

\* C9: whatever fails, the run moves through its stages in order without
\* going back, writes the dataset exactly once after the last page and ends
\* with status 0; it ends with status 1 only when the write itself fails,
\* and an ended run does nothing more.
C9_RunCompletes ==
    /\ [][StageRank' \in {StageRank, StageRank + 1}]_vars
    /\ [][pc \notin {"done", "failed"}]_vars
    /\ [](StageRank >= 2 => li = Len(rarityPages) + 1)
    /\ [](writes <= 1)
    /\ [](writes = 1 <=> exitCode = "0")
    /\ [](exitCode = "0" =>
            pc = "done" /\ outFile = [written |-> TRUE, records |-> Stringify(final)] /\ Len(results) = Len(urls)
              /\ Len(fetches) = Len(rarityPages) + Len(urls))
    /\ [](exitCode = "1" =>
            pc = "failed" /\ outFile = NoFile /\ Len(results) = Len(urls)
              /\ final = SortByName(DedupByName(<<>>, operators)))
    /\ <>(exitCode # "running")

\* a run in which every listing fetch failed ends with status 0 and an
\* empty dataset, and so does a run in which every page fetch failed
C9_Witness ==
    /\ exitCode = "0"
    /\ outFile.written /\ Saved = <<>>
    /\ \/ errorsLogged = Len(rarityPages)
       \/ Len(urls) = 3 /\ errorsLogged = 3 /\ \A k \in 1..3 : results[k] = Null

\* the requests of one loop, in the order they were issued
RequestsOf(kind) == SelectSeq(fetches, LAMBDA r : r.kind = kind)

\* the listing fetches that have answered or failed: the iterations the loop
\* of line 202 has left, and the one whose delay is running
SettledListings == (li - 1) + (IF pc = "listingDelay" THEN 1 ELSE 0)

\* the fetches issued and not yet answered or failed
InFlight == Len(fetches) - SettledListings - Len(results)

\* the listing pages, as the loop of lines 202-203 requests them
ListingRequests == [i \in 1..Len(rarityPages) |-> Request("listing", BASE \o rarityPages[i])]

NoRepeat(s) == \A i, j \in 1..Len(s) : i # j => s[i] # s[j]

\* C11 as stated: at most one fetch is in flight, and no page, listing page
\* or discovered page, is fetched more than once in a run.
C11_EveryUrlFetchedOnce ==
    /\ InFlight \in {0, 1}
    /\ NoRepeat([i \in 1..Len(fetches) |-> fetches[i].url])

\* C11 amended: at most one fetch is in flight and a fetch is issued only
\* when none is; the listing loop requests each listing page exactly once,
\* in order; the page loop requests each distinct discovered URL exactly
\* once, in sorted order, whether fetches failed or not.  A listing page
\* that a listing links to is requested again, as an operator page.
C11_SequentialNoRetry ==
    /\ [](InFlight \in {0, 1})
    /\ [][fetches' # fetches =>
            InFlight = 0 /\ \E r \in {fetches'[Len(fetches')]} : fetches' = Append(fetches, r)]_vars
    /\ [](NoRepeat(fetches))
    /\ [](StageRank = 1 => fetches = SubSeq(ListingRequests, 1, Len(fetches)))
    /\ [](StageRank >= 2 => RequestsOf("listing") = ListingRequests)
    /\ [](StageRank >= 2 =>
            /\ NoRepeat(urls)
            /\ {urls[k] : k \in 1..Len(urls)} = {operatorUrls[k] : k \in 1..Len(operatorUrls)}
            /\ \A k \in 1..Len(RequestsOf("page")) : RequestsOf("page")[k] = Request("page", urls[k]))
    /\ [](StageRank >= 3 => Len(RequestsOf("page")) = Len(urls))

\* a finished run in which a listing fetch and a page fetch failed and a
\* listing page found as a link was requested again by the page loop
C11_Witness ==
    /\ pc = "done"
    /\ Len(urls) >= 2
    /\ \E k \in 1..Len(results) : results[k] = Null
    /\ errorsLogged > Cardinality({k \in 1..Len(results) : results[k] = Null})
    /\ \E i, j \in 1..Len(fetches) :
         i < j /\ fetches[i].url = fetches[j].url /\ fetches[i].kind = "listing"
                /\ fetches[j].kind = "page"

(***************************************************************************)
(* One call of fetchOperatorLinksFromListing on a bounded listing page     *)
(***************************************************************************)
\* the state of main() while a single function is exercised
MainIdle ==
    /\ li = 1 /\ operatorUrls = <<>> /\ urls = <<>> /\ pidx = 1
    /\ results = <<>> /\ operators = <<>> /\ final = <<>> /\ outFile = NoFile
    /\ writes = 0 /\ exitCode = "running" /\ waited = 0 /\ gap = 0
    /\ fetches = <<>> /\ errorsLogged = 0

\* most anchors of a listing page given to one call
MaxListingAnchors == 2

\* anchors inside and outside the content, without href, with a namespace,
\* matching both heuristics, ending in Operators, resolving to one URL
\* (a tab is dropped by the URL parser), with a text that has no letter and
\* with a text of forty characters
ListingAnchors ==
    {Anchor(TRUE, Str(<<"/", "w", "i", "k", "i", "/", "O", "p", "e", "r", "a", "t", "o", "r", "/", "A", "m", "i", "y", "a">>), <<"A", "m", "i", "y", "a">>),
     Anchor(TRUE, Str(<<"/", "w", "i", "k", "i", "/", "O", "p", "e", "r", "a", "t", "o", "r", "/", "\t", "A", "m", "i", "y", "a">>), <<" ", "A", "m", "i", "y", "a", " ">>),
     Anchor(FALSE, Str(<<"/", "w", "i", "k", "i", "/", "O", "p", "e", "r", "a", "t", "o", "r", "/", "B", "i", "s", "o", "n">>), <<"B", "i", "s", "o", "n">>),
     Anchor(TRUE, Undefined, <<"C", "e", "o", "b", "e">>),
     Anchor(TRUE, Str(<<"/", "w", "i", "k", "i", "/", "F", "i", "l", "e", ":", "O", "p", "e", "r", "a", "t", "o", "r", ".", "p", "n", "g">>), <<"F", "i", "l", "e">>),
     Anchor(TRUE, Str(<<"/", "w", "i", "k", "i", "/", "O", "p", "e", "r", "a", "t", "o", "r", ":", "T", "a", "l", "k">>), <<"T", "a", "l", "k">>),
     Anchor(TRUE, Str(<<"/", "w", "i", "k", "i", "/", "O", "p", "e", "r", "a", "t", "o", "r", "s">>), <<"A", "l", "l">>),
     Anchor(TRUE, Str(<<"/", "w", "i", "k", "i", "/", "E", "x", "u", "s", "i", "a", "i">>), <<"E", "x", "u", "s", "i", "a", "i">>),
     Anchor(TRUE, Str(<<"/", "w", "i", "k", "i", "/", "1", "2", "F">>), <<"1", "2">>),
     Anchor(TRUE, Str(<<"/", "w", "i", "k", "i", "/", "L", "o", "n", "g", " ", "n", "a", "m", "e">>), [i \in 1..40 |-> "x"]),
     Anchor(TRUE, Str(<<"/", "/", "e", "v", "i", "l", ".", "e", "x", "a", "m", "p", "l", "e", "/", "w", "i", "k", "i", "/", "O", "p", "e", "r", "a", "t", "o", "r">>), <<"E", "v", "i", "l">>),
     Anchor(TRUE, Str(<<"h", "t", "t", "p", "s", ":", "/", "/", "e", "v", "i", "l", ".", "e", "x", "a", "m", "p", "l", "e", "/", "w", "i", "k", "i", "/", "x">>), <<"E", "v", "i", "l">>)}

ListingInputs == SeqsUpTo(ListingAnchors, MaxListingAnchors)

InitListing ==
    /\ MainIdle
    /\ pc = "call"
    /\ call \in {[fn |-> "fetchOperatorLinksFromListing", doc |-> d] : d \in ListingInputs}
    /\ ret = Idle

\* lines 167-196 on the document the fetch of line 168 returned
CallListing ==
    /\ pc = "call" /\ call.fn = "fetchOperatorLinksFromListing"
    /\ ret' = fetchOperatorLinksFromListing(call.doc)
    /\ pc' = "returned"
    /\ UNCHANGED <<mainVars, call>>

SpecListing == InitListing /\ [][CallListing]_vars

ReturnedLinks == pc = "returned" /\ call.fn = "fetchOperatorLinksFromListing"

\* the anchors of the page a returned URL may come from: inside the content,
\* with an href that has no namespace separator
CleanAnchor(a) ==
    a.inContent /\ a.href.t = "string" /\ ~(\E i \in 1..Len(a.href.s) : a.href.s[i] = ":")

\* C10: every returned URL is an absolute https URL on the wiki host, it is
\* the resolved href of an anchor inside the content whose href has no
\* colon, and no URL is returned twice.
C10_LinksCleanAndDistinct ==
    ReturnedLinks =>
      /\ \A i \in 1..Len(ret) :
           /\ SubSeq(ret[i], 1, Len(SiteRoot) + 1) = SiteRoot \o <<"/">>
           /\ \E k \in 1..Len(call.doc) :
                CleanAnchor(call.doc[k]) /\ ResolveUrl(call.doc[k].href.s) = ret[i]
      /\ \A i, j \in 1..Len(ret) : i # j => ret[i] # ret[j]

\* a page with a namespace link next to a link both heuristics accept, or
\* with two hrefs that resolve to one URL: one URL is returned
C10_Witness ==
    /\ ReturnedLinks
    /\ Len(call.doc) = 2 /\ Len(ret) = 1
    /\ \/ /\ \E k \in 1..2 : \E i \in 1..Len(call.doc[k].href.s) : call.doc[k].href.s[i] = ":"
          /\ \E k \in 1..2 : AcceptedByPattern(call.doc[k]) /\ AcceptedByFallback(call.doc[k])
       \/ /\ call.doc[1].href # call.doc[2].href
          /\ \A k \in 1..2 : AcceptedByPattern(call.doc[k])

(***************************************************************************)
(* One call of extractField on a bounded document                          *)
(***************************************************************************)
\* most infobox fragments of a document given to one call
MaxBlocks == 2

\* fragments of an infobox, each answering to some of the four strategies:
\* a portable-infobox row (its label wrapped or not, its value empty or
\* not), a bare label/value pair, a table row whose header contains or
\* equals the label, a plain element followed by a sibling
FieldBlocks ==
    {<<Box("pi-data", <<Leaf("pi-data-label", <<"R", "a", "r", "i", "t", "y">>),
                        Leaf("pi-data-value", <<" ", "o", "n", "e", " ">>)>>)>>,
     <<Box("pi-data", <<Box("h3", <<Leaf("pi-data-label", <<" ", "r", "a", "r", "i", "t", "y", "\n">>)>>),
                        Leaf("pi-data-value", <<"w", "r", "a", "p", "p", "e", "d">>)>>)>>,
     <<Box("pi-data", <<Leaf("pi-data-label", <<"R", "A", "R", "I", "T", "Y">>),
                        Leaf("pi-data-value", <<" ">>)>>)>>,
     <<Box("pi-data", <<Leaf("pi-data-label", <<"S", "t", "a", "r">>),
                        Leaf("pi-data-value", <<"o", "t", "h", "e", "r">>)>>)>>,
     <<Leaf("pi-data-label", <<"R", "a", "r", "i", "t", "y">>), Leaf("pi-data-value", <<"t", "w", "o">>)>>,
     <<Leaf("pi-data-label", <<"R", "a", "r", "i", "t", "y">>), Leaf("div", <<"n", "o", "t", " ", "a", " ", "v", "a", "l", "u", "e">>)>>,
     <<Box("tr", <<Leaf("th", <<"R", "a", "r", "i", "t", "y", " ", "l", "e", "v", "e", "l">>), Leaf("td", <<"t", "h", "r", "e", "e">>)>>)>>,
     <<Box("tr", <<Leaf("th", <<"R", "a", "r", "i", "t", "y">>), Leaf("td", <<>>)>>)>>,
     <<Box("tr", <<Leaf("th", <<"C", "l", "a", "s", "s">>), Leaf("td", <<"G", "u", "a", "r", "d">>)>>)>>,
     <<Leaf("b", <<"r", "a", "r", "i", "t", "y">>), Leaf("span", <<"f", "o", "u", "r">>)>>,
     <<Leaf("b", <<"R", "a", "r", "i", "t", "y">>)>>,
     <<Box("p", <<Leaf("i", <<"R", "a", "r", "i", "t", "y">>), Leaf("i", <<"\t">>)>>)>>}

FieldDocs == {Concat(bs) : bs \in SeqsUpTo(FieldBlocks, MaxBlocks)}

FieldLabels == {<<"R", "a", "r", "i", "t", "y">>, <<"S", "t", "a", "r">>}

InitExtract ==
    /\ MainIdle
    /\ pc = "call"
    /\ call \in {[fn |-> "extractField", doc |-> d, label |-> l] :
                   d \in FieldDocs, l \in FieldLabels}
    /\ ret = Idle

\* lines 47-90 on a loaded document
CallExtract ==
    /\ pc = "call" /\ call.fn = "extractField"
    /\ ret' = extractField(call.doc, call.label)
    /\ pc' = "returned"
    /\ UNCHANGED <<mainVars, call>>

SpecExtract == InitExtract /\ [][CallExtract]_vars

ReturnedField == pc = "returned" /\ call.fn = "extractField"

\* what strategy k finds in the document of the call
StrategyValue(k) ==
    CASE k = 1 -> Strategy1(call.doc, call.label)
      [] k = 2 -> Strategy2(call.doc, call.label)
      [] k = 3 -> Strategy3(call.doc, call.label)
      [] k = 4 -> Strategy4(call.doc, call.label)

\* C5: the result is the value of the lowest-numbered strategy that finds a
\* non-empty value, whatever the later strategies find, and the empty
\* string when none finds one.
C5_CascadeShortCircuits ==
    ReturnedField =>
      /\ \A k \in 1..4 :
           (StrategyValue(k) # <<>> /\ \A j \in 1..(k - 1) : StrategyValue(j) = <<>>)
             => ret = StrategyValue(k)
      /\ (\A k \in 1..4 : StrategyValue(k) = <<>>) => ret = <<>>
      /\ StrategyValue(1) # <<>> => ret = StrategyValue(1)

\* a document in which strategy 1 finds a value and a later strategy finds
\* another one, and a document in which the first finding strategy is not
\* the first one and a later strategy disagrees with it
C5_Witness ==
    /\ ReturnedField
    /\ \E k \in 1..3 :
         /\ StrategyValue(k) # <<>>
         /\ \A j \in 1..(k - 1) : StrategyValue(j) = <<>>
         /\ \E m \in (k + 1)..4 :
              StrategyValue(m) # <<>> /\ StrategyValue(m) # StrategyValue(k)
         /\ ret = StrategyValue(k)

(***************************************************************************)
(* One call of parseOperatorPage on a bounded operator page                *)
(***************************************************************************)
\* a numeral too long for a double: Number() of it is Infinity
HugeNumeral == [i \in 1..310 |-> "9"]

HeadingParts ==
    {<<>>, <<Leaf("firstHeading", <<" ", "A", "m", "i", "y", "a", "\n">>)>>, <<Leaf("firstHeading", <<" ", "\n">>)>>}

TitleParts == {<<>>, <<Leaf("pi-title", <<"A", "m", "i", "y", "a", " ", " ", "t", "h", "e", " ", " ", "C", "a", "s", "t", "e", "r">>)>>}

\* the og:image meta element: absent, without content, protocol-relative
FullImageParts ==
    {<<>>, <<WithAttr("meta-og-image", Undefined)>>,
     <<WithAttr("meta-og-image", Str(<<"/", "/", "c", "d", "n", ".", "w", "i", "k", "i", ".", "g", "g", "/", "a", ".", "p", "n", "g">>))>>}

\* the infobox image: absent, without src, with a site-relative src
PortraitParts ==
    {<<>>, <<WithAttr("pi-image-img", Undefined)>>,
     <<WithAttr("pi-image-img", Str(<<"/", "i", "m", "a", "g", "e", "s", "/", "a", ".", "p", "n", "g">>))>>}

RarityTexts == {<<StarGlyph, StarGlyph, StarGlyph>>, <<"T", "i", "e", "r", " ", "0", "6">>, <<"0">>, <<"n", "/", "a">>, HugeNumeral}

RarityParts ==
    {<<>>} \cup {<<Box("pi-data", <<Leaf("pi-data-label", <<"R", "a", "r", "i", "t", "y">>),
                                    Leaf("pi-data-value", r)>>)>> : r \in RarityTexts}

ReleaseTexts ==
    {<<"2", "0", "1", "9", "-", "0", "5", "-", "0", "1">>, <<"E", "v", "e", "n", "t", " ", " ", "2", "0", "1", "9", "-", "0", "5", "-", "0", "1", " ", "r", "e", "r", "u", "n", " ", "2", "0", "2", "0">>, <<"3", "2", "0", "1", "9", "-", "0", "5", "-", "0", "1", "7">>,
     <<"2", "0", "2", "0", " ", "t", "h", "e", "n", " ", "2", "0", "1", "9", "-", "0", "5", "-", "0", "1">>, <<"R", "e", "l", "e", "a", "s", "e", "d", " ", "i", "n", " ", "2", "0", "1", "8">>, <<"2", "0", "1", "8">>,
     <<"I", "n", " ", "2", "0", "1", "9", "1", " ", "o", "r", " ", "s", "o">>, <<"s", "o", "o", "n">>, <<"1", "9", "-", "0", "5", "-", "0", "1">>}

ReleaseParts ==
    {<<>>} \cup {<<Box("tr", <<Leaf("th", <<"R", "e", "l", "e", "a", "s", "e", " ", "d", "a", "t", "e">>), Leaf("td", r)>>)>> :
                   r \in ReleaseTexts}

ParsePages ==
    {h \o t \o f \o p \o r \o d :
       h \in HeadingParts, t \in TitleParts, f \in FullImageParts,
       p \in PortraitParts, r \in RarityParts, d \in ReleaseParts}

ParseResponses ==
    {[ok |-> FALSE, data |-> <<>>]} \cup {[ok |-> TRUE, data |-> d] : d \in ParsePages}

InitParse ==
    /\ MainIdle
    /\ pc = "call"
    /\ call \in {[fn |-> "parseOperatorPage", opUrl |-> BASE \o <<"A", "m", "i", "y", "a">>, resp |-> r] :
                   r \in ParseResponses}
    /\ ret = Idle

\* lines 92-165 with the outcome of the fetch of line 94
CallParse ==
    /\ pc = "call" /\ call.fn = "parseOperatorPage"
    /\ ret' = parseOperatorPage(call.opUrl, call.resp)
    /\ pc' = "returned"
    /\ UNCHANGED <<mainVars, call>>

SpecParse == InitParse /\ [][CallParse]_vars

(***************************************************************************)
(* Properties of the record parseOperatorPage returns                      *)
(***************************************************************************)
ReturnedRecord ==
    pc = "returned" /\ call.fn = "parseOperatorPage" /\ ret # Null

IsString(v) == v.t = "string"

\* a positive integer or the empty string
IsRarity(v) == v = Str(<<>>) \/ (v.t = "number" /\ v.finite /\ v.n > 0)

DeclaredFields ==
    {"t", "name", "gender", "rarity", "class", "archetype", "faction", "race",
     "region", "release", "image", "source"}

\* C4: every record returned has all its declared fields, none undefined
\* or null: the string fields are strings and rarity is a positive integer
\* or the empty string.
C4_RecordWellFormed ==
    ReturnedRecord =>
      /\ DOMAIN ret = DeclaredFields
      /\ DOMAIN ret.release = {"date_global", "event_name"}
      /\ DOMAIN ret.image = {"portrait", "full"}
      /\ \A v \in {ret.name, ret.gender, ret.class, ret.archetype, ret.faction,
                   ret.race, ret.region, ret.release.date_global,
                   ret.release.event_name, ret.image.portrait, ret.image.full,
                   ret.source} : IsString(v)
      /\ IsRarity(ret.rarity)

\* the release raw text of the page of the call
RawRelease == ReleaseRaw(call.resp.data)

\* s has a yyyy-mm-dd substring at i
IsoAt(s, i) ==
    /\ i + 9 <= Len(s)
    /\ \A k \in 0..9 : IF k \in {4, 7} THEN s[i + k] = "-" ELSE s[i + k] \in Digits

\* s has four digits in a row at i
YearAt(s, i) == i + 3 <= Len(s) /\ \A k \in 0..3 : s[i + k] \in Digits

HasIso(s) == \E i \in 1..Len(s) : IsoAt(s, i)

HasYear(s) == \E i \in 1..Len(s) : YearAt(s, i)

\* s without its n characters from i on, trimmed and tidied
Without(s, i, n) == tidy(Str(SubSeq(s, 1, i - 1) \o SubSeq(s, i + n, Len(s)))).s

\* C6: when the release text has a yyyy-mm-dd substring, date_global is that
\* substring even if a bare year comes first, and event_name is the text
\* without it, trimmed and tidied, or the whole text when nothing is left;
\* when the text has neither a date nor a year, a record is returned with
\* an empty date_global.
C6_IsoDateExtracted ==
    (pc = "returned" /\ call.fn = "parseOperatorPage" /\ call.resp.ok) =>
      /\ ret # Null
      /\ HasIso(RawRelease) =>
           \E i \in 1..Len(RawRelease) :
             /\ IsoAt(RawRelease, i)
             /\ ret.release.date_global = Str(SubSeq(RawRelease, i, i + 9))
             /\ ret.release.event_name =
                  Str(IF Without(RawRelease, i, 10) = <<>> THEN RawRelease
                      ELSE Without(RawRelease, i, 10))
      /\ (~HasIso(RawRelease) /\ ~HasYear(RawRelease)) =>
           ret.release.date_global = Str(<<>>)

\* a release text in which a bare year precedes the date and text is left
\* after the date is removed
C6_Witness ==
    /\ ReturnedRecord
    /\ \E i, j \in 1..Len(RawRelease) :
         /\ j < i /\ YearAt(RawRelease, j) /\ ~IsoAt(RawRelease, j)
         /\ IsoAt(RawRelease, i)
         /\ ret.release.date_global = Str(SubSeq(RawRelease, i, i + 9))
    /\ ret.release.event_name # Str(RawRelease)
    /\ ret.release.event_name # Str(<<>>)

\* the release text has a bare year inside a sentence and no date
YearInSentence(s) == ~HasIso(s) /\ HasYear(s) /\ \E i \in 1..Len(s) : IsLetter(s[i])

\* C7 as stated: for a release text with a bare year inside a sentence and
\* no date, date_global is the year and event_name is the whole text.
C7_YearKeepsFullText ==
    (ReturnedRecord /\ YearInSentence(RawRelease)) =>
      /\ \E i \in 1..Len(RawRelease) :
           YearAt(RawRelease, i) /\ ret.release.date_global = Str(SubSeq(RawRelease, i, i + 3))
      /\ ret.release.event_name = Str(RawRelease)

\* C7 amended: for a release text with a bare year and no date, date_global
\* is the first four digits in a row and event_name is the text without
\* them, trimmed and tidied; it is the whole text only when nothing is left.
C7_YearStripped ==
    (ReturnedRecord /\ ~HasIso(RawRelease) /\ HasYear(RawRelease)) =>
      \E i \in 1..Len(RawRelease) :
        /\ YearAt(RawRelease, i) /\ \A j \in 1..(i - 1) : ~YearAt(RawRelease, j)
        /\ ret.release.date_global = Str(SubSeq(RawRelease, i, i + 3))
        /\ ret.release.event_name =
             Str(IF Without(RawRelease, i, 4) = <<>> THEN RawRelease
                 ELSE Without(RawRelease, i, 4))
        /\ (ret.release.event_name = Str(RawRelease)
              <=> Len(RawRelease) = 4)

\* "Released in 2018" gives the year 2018 and the event name "Released in"
C7_Witness ==
    /\ ReturnedRecord
    /\ RawRelease = <<"R", "e", "l", "e", "a", "s", "e", "d", " ", "i", "n", " ", "2", "0", "1", "8">>
    /\ ret.release.date_global = Str(<<"2", "0", "1", "8">>)
    /\ ret.release.event_name = Str(<<"R", "e", "l", "e", "a", "s", "e", "d", " ", "i", "n">>)

====
